---- MODULE Spec2Model ----
(***************************************************************************)
(* Model of since-bot's ActivityChart (activity heatmap renderer).         *)
(*                                                                         *)
(* ActivityChart.Render is modelled as a state machine: `ac' is the        *)
(* receiver copy Render works on (Render has a value receiver), `caller'   *)
(* the chart value the caller holds, `calls' the sequence of calls the     *)
(* renderer has received (a recording renderer), `rpCalls' the number of   *)
(* renderers the provider was asked for, `metric' and `rFontSize' the      *)
(* renderer's glyph metric and current font size, `i' the loop index of    *)
(* drawDots, `bucketEvals' the number of times getDotColor evaluated its   *)
(* bucket formula, `pc' the position in Render and `err' the error Render  *)
(* returned (when pc = "Done"; "nil" for none).                            *)
(*                                                                         *)
(* `lane' names the Render call these variables describe and `parked' is   *)
(* the state of a second Render call of the same chart value while the     *)
(* scheduler runs the first (two goroutines).                              *)
(*                                                                         *)
(* The bot of main.go: `events' is the events table, `msgs' the bag of the *)
(* goroutines started for the messages received so far, `pool'             *)
(* the number of idle connections of the pool, `alive' whether the process *)
(* still runs, `faults' the number of failures the environment injected.   *)
(***************************************************************************)
EXTENDS Integers, Sequences, FiniteSets, Bags, TLC

VARIABLES caller, ac, pc, err, calls, rpCalls, metric, rFontSize, i, bucketEvals,
          parked, lane,
          events, msgs, pool, alive, faults

\* one Render call: the receiver copy, the renderer and the locals
chartVars == <<caller, ac, pc, err, calls, rpCalls, metric, rFontSize, i, bucketEvals>>

\* a second Render call of the same chart value (see CallAgain, Switch)
laneVars == <<parked, lane>>

\* the bot of main.go (see Receive and the handlers)
botVars == <<events, msgs, pool, alive, faults>>

vars == <<chartVars, laneVars, botVars>>

(***************************************************************************)
(* Bounds of the explored inputs.                                          *)
(***************************************************************************)
MaxVal == 5          \* largest activity count of a day
MaxFree == 1         \* series up to this length take every value combination
MaxLen == 12         \* longest series (patterned beyond MaxFree)

(***************************************************************************)
(* Program constants.                                                      *)
(***************************************************************************)
daysPerWeek == 7
DefaultDotSize == 16
DefaultDotSpacing == 2
DefaultChartWidth == 1024
DefaultChartHeight == 400
DefaultDPI == 92
DefaultTitleTop == 10
DefaultAxisFontSize == 10
YAxisGutter == 5
XAxisRise == 10

activityChartDefaultColors == <<"ebedf0", "c6e48b", "7bc96f", "239a3b", "196127">>

activityChartDayLabels == <<"Mon", "", "Wed", "", "Fri", "", "Sun">>

activityChartMonthLabels ==
    <<"Jan", "Feb", "Mar", "Apr", "May", "Jun", "Jul", "Aug", "Sep", "Oct", "Nov", "Dec">>

(***************************************************************************)
(* Go integer arithmetic: / truncates toward zero, % takes the sign of the *)
(* dividend.  Division by zero is a run-time panic, tested by the callers. *)
(***************************************************************************)
Abs(n) == IF n < 0 THEN -n ELSE n

GoDiv(a, b) ==
    LET q == Abs(a) \div Abs(b)
    IN  IF (a < 0) # (b < 0) THEN -q ELSE q

GoMod(a, b) == a - b * GoDiv(a, b)

MinInt(a, b) == IF a < b THEN a ELSE b

MaxInt(a, b) == IF a > b THEN a ELSE b

(***************************************************************************)
(* fmt.Sprintf("%d", n)                                                    *)
(***************************************************************************)
DigitStr(d) == <<"0", "1", "2", "3", "4", "5", "6", "7", "8", "9">>[d + 1]

RECURSIVE NatStr(_)
NatStr(n) == IF n < 10 THEN DigitStr(n) ELSE NatStr(n \div 10) \o DigitStr(n % 10)

IntStr(n) == IF n < 0 THEN "-" \o NatStr(-n) ELSE NatStr(n)

(***************************************************************************)
(* Getters with defaults.                                                  *)
(***************************************************************************)
GetWidth(c) == IF c.Width = 0 THEN DefaultChartWidth ELSE c.Width

GetHeight(c) == IF c.Height = 0 THEN DefaultChartHeight ELSE c.Height

GetDPI(c) == IF c.DPI = 0 THEN DefaultDPI ELSE c.DPI

GetDotSize(c) == IF c.DotSize = 0 THEN DefaultDotSize ELSE c.DotSize

GetDotSpacing(c) == IF c.DotSpacing = 0 THEN DefaultDotSpacing ELSE c.DotSpacing

\* variant: the 512 breakpoint tested with > instead of >=
getTitleFontSize_strict(c) ==
    LET effectiveDimension == MinInt(GetWidth(c), GetHeight(c))
    IN  IF effectiveDimension >= 2048 THEN 48
        ELSE IF effectiveDimension >= 1024 THEN 24
        ELSE IF effectiveDimension > 512 THEN 18
        ELSE IF effectiveDimension >= 256 THEN 12
        ELSE 10

getTitleFontSize(c) ==
    LET effectiveDimension == MinInt(GetWidth(c), GetHeight(c))
    IN  IF effectiveDimension >= 2048 THEN 48
        ELSE IF effectiveDimension >= 1024 THEN 24
        ELSE IF effectiveDimension >= 512 THEN 18
        ELSE IF effectiveDimension >= 256 THEN 12
        ELSE 10

\* variant: a spacing counted after every dot, the last one included
getChartAreaDim_trailingGap(c, numDots) == numDots * (GetDotSize(c) + GetDotSpacing(c))

getChartAreaDim(c, numDots) == numDots * GetDotSize(c) + (numDots - 1) * GetDotSpacing(c)

(***************************************************************************)
(* The renderer (external): text extents grow with the text length and the *)
(* font size; `m' is the renderer's glyph width in tenths of the font size.*)
(***************************************************************************)
MeasureText(s, fontSize, m) ==
    [Width |-> (Len(s) * fontSize * m) \div 10, Height |-> fontSize]

NoBox == [Left |-> 0, Top |-> 0, Right |-> 0, Bottom |-> 0]

\* one recorded renderer call: who issued it, what it is, and its arguments
Call(by, op, text, box, color, num) ==
    [by |-> by, op |-> op, text |-> text, box |-> box, color |-> color, num |-> num]

PointBox(x, y) == [Left |-> x, Top |-> y, Right |-> x, Bottom |-> y]

(***************************************************************************)
(* Color bucketing (getDotColor).  The index expression is evaluated only  *)
(* for value # 0; it faults (run-time panic) when maxValue is 0 or when    *)
(* the index falls outside the palette.                                    *)
(***************************************************************************)
numColors == Len(activityChartDefaultColors) - 1

\* variant: no early return for value 0
getDotColorBuckets_always(value) == TRUE

\* FALSE on the early return for value 0, TRUE when the formula is evaluated
getDotColorBuckets(value) == value # 0

\* variant: value instead of value - 1 in the bucket formula
getDotColorIndex_noBias(value, maxValue) ==
    IF value = 0 THEN 0
    ELSE GoDiv(value * numColors, maxValue) + 1

\* variant: the ramp runs from the maximum down
getDotColorIndex_inverted(value, maxValue) ==
    IF value = 0 THEN 0
    ELSE GoDiv((maxValue - value) * numColors, maxValue) + 1

getDotColorIndex(value, maxValue) ==
    IF ~getDotColorBuckets(value) THEN 0
    ELSE GoDiv((value - 1) * numColors, maxValue) + 1

getDotColorFaults(value, maxValue) ==
    /\ getDotColorBuckets(value)
    /\ \/ maxValue = 0
       \/ getDotColorIndex(value, maxValue) \notin 0..(Len(activityChartDefaultColors) - 1)

getDotColor(value, maxValue) ==
    activityChartDefaultColors[getDotColorIndex(value, maxValue) + 1]

(***************************************************************************)
(* Cell placement (body of the loop of drawDots).                          *)
(***************************************************************************)
\* variant: the flip forgets the - 1
dotWeek_offByOne(idx, currentDay, leftToRight, numWeeks) ==
    LET week == GoDiv(idx + currentDay, daysPerWeek)
    IN  IF ~leftToRight THEN numWeeks - week ELSE week

dotWeek(idx, currentDay, leftToRight, numWeeks) ==
    LET week == GoDiv(idx + currentDay, daysPerWeek)
    IN  IF ~leftToRight THEN numWeeks - 1 - week ELSE week

\* variant: the row wraps one day early
dotDay_sixRows(idx, currentDay) == GoMod(idx + currentDay, daysPerWeek - 1)

dotDay(idx, currentDay) == GoMod(idx + currentDay, daysPerWeek)

\* variant: week and day interchanged
dotBox_transposed(c, idx) ==
    LET size == GetDotSize(c)
        spacing == GetDotSpacing(c)
        week == dotWeek(idx, c.CurrentDay, c.LeftToRight, c.numWeeks)
        day == dotDay(idx, c.CurrentDay)
        x == c.chartX + day * (size + spacing)
        y == c.chartY + week * (size + spacing)
    IN  [Left |-> x, Top |-> y, Right |-> x + size, Bottom |-> y + size]

dotBox(c, idx) ==
    LET size == GetDotSize(c)
        spacing == GetDotSpacing(c)
        week == dotWeek(idx, c.CurrentDay, c.LeftToRight, c.numWeeks)
        day == dotDay(idx, c.CurrentDay)
        x == c.chartX + week * (size + spacing)
        y == c.chartY + day * (size + spacing)
    IN  [Left |-> x, Top |-> y, Right |-> x + size, Bottom |-> y + size]

(***************************************************************************)
(* layout: derived geometry and the observed maximum.                      *)
(***************************************************************************)
\* variant: the scan starts at the second element
RECURSIVE findMax_skipFirst(_, _, _)
findMax_skipFirst(days, k, m) ==
    IF k > Len(days) THEN m
    ELSE IF k = 1 THEN findMax_skipFirst(days, 2, m)
    ELSE findMax_skipFirst(days, k + 1, IF days[k] > m THEN days[k] ELSE m)

RECURSIVE findMax(_, _, _)
findMax(days, k, m) ==
    IF k > Len(days) THEN m
    ELSE findMax(days, k + 1, IF days[k] > m THEN days[k] ELSE m)

\* variant: a whole week is added before the division
layoutNumWeeks_extraWeek(numDays, currentDay) ==
    GoDiv(numDays + currentDay + daysPerWeek, daysPerWeek)

\* variant: plain division, without rounding up
layoutNumWeeks_floor(numDays, currentDay) ==
    GoDiv(numDays + currentDay, daysPerWeek)

layoutNumWeeks(numDays, currentDay) ==
    GoDiv(numDays + currentDay + daysPerWeek - 1, daysPerWeek)

\* variant: the horizontal margin is not halved
layout_notHalved(c, titleBox) ==
    LET titleX == GoDiv(GetWidth(c) - titleBox.Width, 2)
        titleY == DefaultTitleTop + titleBox.Height
        numWeeks == layoutNumWeeks(Len(c.Days), c.CurrentDay)
        c1 == [c EXCEPT !.titleX = titleX, !.titleY = titleY, !.numWeeks = numWeeks]
        chartWidth == getChartAreaDim(c1, numWeeks)
        chartHeight == getChartAreaDim(c1, daysPerWeek)
    IN  [c1 EXCEPT !.chartWidth = chartWidth,
                   !.chartHeight = chartHeight,
                   !.chartX = GetWidth(c1) - chartWidth,
                   !.chartY = GoDiv(GetHeight(c1) - titleY - chartHeight, 2),
                   !.maxValue = findMax(c1.Days, 1, -1)]

layout(c, titleBox) ==
    LET titleX == GoDiv(GetWidth(c) - titleBox.Width, 2)
        titleY == DefaultTitleTop + titleBox.Height
        numWeeks == layoutNumWeeks(Len(c.Days), c.CurrentDay)
        c1 == [c EXCEPT !.titleX = titleX, !.titleY = titleY, !.numWeeks = numWeeks]
        chartWidth == getChartAreaDim(c1, numWeeks)
        chartHeight == getChartAreaDim(c1, daysPerWeek)
    IN  [c1 EXCEPT !.chartWidth = chartWidth,
                   !.chartHeight = chartHeight,
                   !.chartX = GoDiv(GetWidth(c1) - chartWidth, 2),
                   !.chartY = GoDiv(GetHeight(c1) - titleY - chartHeight, 2),
                   !.maxValue = findMax(c1.Days, 1, -1)]

(***************************************************************************)
(* Axis passes: the calls drawXAxis / drawYAxis issue, in order.           *)
(***************************************************************************)
measureStrings(by, strs, fs, m) ==
    [k \in 1..Len(strs) |-> Call(by, "MeasureText", strs[k], NoBox, "", fs)]

RECURSIVE sumWidths(_, _, _, _)
sumWidths(strs, n, fs, m) ==
    IF n = 0 THEN 0
    ELSE sumWidths(strs, n - 1, fs, m) + MeasureText(strs[n], fs, m).Width

RECURSIVE getMaxWidth(_, _, _, _)
getMaxWidth(strs, n, fs, m) ==
    IF n = 0 THEN 0
    ELSE MaxInt(getMaxWidth(strs, n - 1, fs, m), MeasureText(strs[n], fs, m).Width)

\* the grid width as drawXAxis recomputes it
xAxisWidth(c) == GetDotSize(c) * c.numWeeks + GetDotSpacing(c) * (c.numWeeks - 1)

\* variant: the remainder is divided by the number of labels, not of gaps
xAxisLabelGap_perLabel(c, fs, m) ==
    LET width == xAxisWidth(c)
        n == Len(activityChartMonthLabels)
        totalLabelWidth == sumWidths(activityChartMonthLabels, n, fs, m)
    IN  GoDiv(width - totalLabelWidth, n)

xAxisLabelGap(c, fs, m) ==
    LET width == xAxisWidth(c)
        n == Len(activityChartMonthLabels)
        totalLabelWidth == sumWidths(activityChartMonthLabels, n, fs, m)
    IN  GoDiv(width - totalLabelWidth, n - 1)

\* x of the k-th month label (1-based): chartX plus the advances before it
xAxisLabelX(c, k, fs, m) ==
    c.chartX + sumWidths(activityChartMonthLabels, k - 1, fs, m)
             + (k - 1) * xAxisLabelGap(c, fs, m)

xAxisCalls(c, m) ==
    LET fs == DefaultAxisFontSize
    IN  <<Call("drawXAxis", "WriteTextOptions", "", NoBox, "text", fs)>>
        \o measureStrings("drawXAxis", activityChartMonthLabels, fs, m)
        \o [k \in 1..Len(activityChartMonthLabels) |->
               Call("drawXAxis", "Text", activityChartMonthLabels[k],
                    PointBox(xAxisLabelX(c, k, fs, m), c.chartY - XAxisRise), "text", fs)]

yAxisLabelCall(c, row, fs, m) ==
    LET maxWidth == getMaxWidth(activityChartDayLabels, Len(activityChartDayLabels), fs, m)
        x == c.chartX - maxWidth - YAxisGutter
        y == c.chartY + (GetDotSize(c) + GetDotSpacing(c)) * row
                + MeasureText(activityChartDayLabels[row + 1], fs, m).Height
    IN  Call("drawYAxis", "Text", activityChartDayLabels[row + 1], PointBox(x, y), "text", fs)

\* variant: rows with an empty label are not skipped
RECURSIVE yAxisTexts_noSkip(_, _, _, _)
yAxisTexts_noSkip(c, row, fs, m) ==
    IF row >= Len(activityChartDayLabels) THEN << >>
    ELSE <<yAxisLabelCall(c, row, fs, m)>> \o yAxisTexts_noSkip(c, row + 1, fs, m)

RECURSIVE yAxisTexts(_, _, _, _)
yAxisTexts(c, row, fs, m) ==
    IF row >= Len(activityChartDayLabels) THEN << >>
    ELSE (IF Len(activityChartDayLabels[row + 1]) = 0 THEN << >>
          ELSE <<yAxisLabelCall(c, row, fs, m)>>)
         \o yAxisTexts(c, row + 1, fs, m)

yAxisCalls(c, m) ==
    LET fs == DefaultAxisFontSize
    IN  <<Call("drawYAxis", "WriteTextOptions", "", NoBox, "text", fs)>>
        \o measureStrings("drawYAxis", activityChartDayLabels, fs, m)
        \o yAxisTexts(c, 0, fs, m)

(***************************************************************************)
(* The other variable groups at rest: Render is called once, and the bot   *)
(* has an empty events table, no message and a full connection pool.       *)
(***************************************************************************)
poolSize == 16

\* the second Render call has not been made
NotCalled ==
    [pc |-> "NotCalled", ac |-> << >>, err |-> "nil", calls |-> << >>, rpCalls |-> 0,
     metric |-> 0, rFontSize |-> 0, i |-> 0, bucketEvals |-> 0,
     lane |-> [id |-> 2, afterReturn |-> FALSE]]

OneCall ==
    /\ parked = NotCalled
    /\ lane = [id |-> 1, afterReturn |-> FALSE]

BotIdle ==
    /\ events = << >>
    /\ msgs = EmptyBag
    /\ pool = poolSize
    /\ alive = TRUE
    /\ faults = 0

(***************************************************************************)
(* Inputs: the charts a caller may hand to Render.                         *)
(***************************************************************************)
Values == -1..MaxVal

FreeSeries == UNION {[1..n -> Values] : n \in 0..MaxFree}

Patterns == {"zeros", "ramp", "scenario"}

Pattern(p, k) ==
    CASE p = "zeros" -> 0
      [] p = "ramp" -> (k - 1) % (MaxVal + 1)
      [] p = "scenario" -> <<3, 0, 5>>[((k - 1) % 3) + 1]

PatternedSeries ==
    {[k \in 1..n |-> Pattern(p, k)] : n \in (MaxFree + 1)..MaxLen, p \in Patterns}

Series == FreeSeries \cup PatternedSeries

CurrentDays == -1..daysPerWeek

\* the zero-valued chart (every default applies) and a customised one
Presets ==
    { [Title |-> "", TitleShow |-> FALSE, Width |-> 0, Height |-> 0, DPI |-> 0,
       DotSize |-> 0, DotSpacing |-> 0, FontNil |-> TRUE],
      [Title |-> "Activity", TitleShow |-> TRUE, Width |-> 300, Height |-> 200, DPI |-> 72,
       DotSize |-> 3, DotSpacing |-> 1, FontNil |-> FALSE] }

Metrics == {6}

NewChart(p, days, cd, ltr, xs, ys) ==
    [Title |-> p.Title, TitleShow |-> p.TitleShow,
     Width |-> p.Width, Height |-> p.Height, DPI |-> p.DPI,
     DotSize |-> p.DotSize, DotSpacing |-> p.DotSpacing,
     FontNil |-> p.FontNil, defaultFont |-> FALSE,
     XAxisShow |-> xs, YAxisShow |-> ys,
     Days |-> days, CurrentDay |-> cd, LeftToRight |-> ltr,
     titleX |-> 0, titleY |-> 0, chartX |-> 0, chartY |-> 0,
     chartWidth |-> 0, chartHeight |-> 0, numWeeks |-> 0, maxValue |-> 0]

Init ==
    /\ caller \in {NewChart(p, days, cd, ltr, xs, ys) :
                      p \in Presets, days \in Series, cd \in CurrentDays,
                      ltr \in BOOLEAN, xs \in BOOLEAN, ys \in BOOLEAN}
    /\ ac = caller
    /\ pc = "Validating"
    /\ err = "nil"
    /\ calls = << >>
    /\ rpCalls = 0
    /\ metric = 0
    /\ rFontSize = 0
    /\ i = 0
    /\ bucketEvals = 0
    /\ OneCall
    /\ BotIdle

(***************************************************************************)
(* Render, step by step.                                                   *)
(***************************************************************************)
Return(e) == pc' = "Done" /\ err' = e

\* variant: the upper limit tested with > instead of >=
currentDayOutOfRange_offByOne(cd) == cd < 0 \/ cd > daysPerWeek

currentDayOutOfRange(cd) == cd < 0 \/ cd >= daysPerWeek

\* Render: input validation
Validate ==
    /\ pc = "Validating"
    /\ IF Len(ac.Days) = 0
       THEN Return("Please provide at least one day of activity")
       ELSE IF currentDayOutOfRange(ac.CurrentDay)
       THEN Return("CurrentDay must be in [0, " \o IntStr(daysPerWeek - 1) \o "] range")
       ELSE pc' = "SetDefaultFont" /\ err' = err
    /\ UNCHANGED <<caller, ac, calls, rpCalls, metric, rFontSize, i, bucketEvals>>
    /\ UNCHANGED <<laneVars, botVars>>

\* variant: the default font is loaded even when a font is configured
SetDefaultFont_always ==
    /\ pc = "SetDefaultFont"
    /\ \E ok \in BOOLEAN :
         IF ok
         THEN /\ ac' = [ac EXCEPT !.defaultFont = TRUE]
              /\ pc' = "CreateRenderer"
              /\ err' = err
         ELSE Return("GetDefaultFont failed") /\ ac' = ac
    /\ UNCHANGED <<caller, calls, rpCalls, metric, rFontSize, i, bucketEvals>>
    /\ UNCHANGED <<laneVars, botVars>>

\* Render: load the default font when none is configured (the load may fail)
SetDefaultFont ==
    /\ pc = "SetDefaultFont"
    /\ \E ok \in BOOLEAN :
         IF ~ac.FontNil
         THEN pc' = "CreateRenderer" /\ UNCHANGED <<ac, err>>
         ELSE IF ok
         THEN /\ ac' = [ac EXCEPT !.defaultFont = TRUE]
              /\ pc' = "CreateRenderer"
              /\ err' = err
         ELSE Return("GetDefaultFont failed") /\ ac' = ac
    /\ UNCHANGED <<caller, calls, rpCalls, metric, rFontSize, i, bucketEvals>>
    /\ UNCHANGED <<laneVars, botVars>>

renderTitle(c) ==
    IntStr(GetWidth(c)) \o " x " \o IntStr(GetHeight(c)) \o " @ " \o IntStr(GetDPI(c)) \o " dpi"

\* variant: Render has a pointer receiver, the title is written to the caller's chart
CreateRenderer_throughPointer ==
    /\ pc = "CreateRenderer"
    /\ rpCalls' = rpCalls + 1
    /\ \E ok \in BOOLEAN, m \in Metrics :
         IF ok
         THEN /\ metric' = m
              /\ calls' = Append(calls, Call("Render", "SetDPI", "", NoBox, "", GetDPI(ac)))
              /\ ac' = [ac EXCEPT !.Title = renderTitle(ac), !.TitleShow = TRUE]
              /\ caller' = [caller EXCEPT !.Title = renderTitle(ac), !.TitleShow = TRUE]
              /\ pc' = "Layout"
              /\ err' = err
         ELSE /\ Return("renderer provider failed")
              /\ UNCHANGED <<metric, calls, ac, caller>>
    /\ UNCHANGED <<rFontSize, i, bucketEvals>>
    /\ UNCHANGED <<laneVars, botVars>>

\* Render: ask the provider for a renderer (it may fail), set the DPI,
\* overwrite the title
CreateRenderer ==
    /\ pc = "CreateRenderer"
    /\ rpCalls' = rpCalls + 1
    /\ \E ok \in BOOLEAN, m \in Metrics :
         IF ok
         THEN /\ metric' = m
              /\ calls' = Append(calls, Call("Render", "SetDPI", "", NoBox, "", GetDPI(ac)))
              /\ ac' = [ac EXCEPT !.Title = renderTitle(ac), !.TitleShow = TRUE]
              /\ pc' = "Layout"
              /\ err' = err
         ELSE /\ Return("renderer provider failed")
              /\ UNCHANGED <<metric, calls, ac>>
    /\ UNCHANGED <<caller, rFontSize, i, bucketEvals>>
    /\ UNCHANGED <<laneVars, botVars>>

\* variant: Render draws the background before it calls layout
Layout_afterBackground ==
    /\ pc = "Layout"
    /\ LET fs == getTitleFontSize(ac)
       IN  /\ calls' = calls \o
                  << Call("drawBackground", "Box", "",
                          [Left |-> 0, Top |-> 0,
                           Right |-> GetWidth(ac), Bottom |-> GetHeight(ac)],
                          "background", 0),
                     Call("layout", "SetFont", "", NoBox, "", 0),
                     Call("layout", "SetFontSize", "", NoBox, "", fs),
                     Call("layout", "MeasureText", ac.Title, NoBox, "", fs) >>
           /\ rFontSize' = fs
           /\ ac' = layout(ac, MeasureText(ac.Title, fs, metric))
    /\ pc' = "DrawTitle"
    /\ UNCHANGED <<caller, err, rpCalls, metric, i, bucketEvals>>
    /\ UNCHANGED <<laneVars, botVars>>

Layout ==
    /\ pc = "Layout"
    /\ LET fs == getTitleFontSize(ac)
       IN  /\ calls' = calls \o
                  << Call("layout", "SetFont", "", NoBox, "", 0),
                     Call("layout", "SetFontSize", "", NoBox, "", fs),
                     Call("layout", "MeasureText", ac.Title, NoBox, "", fs) >>
           /\ rFontSize' = fs
           /\ ac' = layout(ac, MeasureText(ac.Title, fs, metric))
    /\ pc' = "DrawBackground"
    /\ UNCHANGED <<caller, err, rpCalls, metric, i, bucketEvals>>
    /\ UNCHANGED <<laneVars, botVars>>

DrawBackground ==
    /\ pc = "DrawBackground"
    /\ calls' = Append(calls,
           Call("drawBackground", "Box", "",
                [Left |-> 0, Top |-> 0, Right |-> GetWidth(ac), Bottom |-> GetHeight(ac)],
                "background", 0))
    /\ pc' = "DrawTitle"
    /\ UNCHANGED <<caller, ac, err, rpCalls, metric, rFontSize, i, bucketEvals>>
    /\ UNCHANGED <<laneVars, botVars>>

DrawTitle ==
    /\ pc = "DrawTitle"
    /\ IF ac.TitleShow
       THEN LET fs == getTitleFontSize(ac)
            IN  /\ calls' = calls \o
                       << Call("drawTitle", "SetFont", "", NoBox, "", 0),
                          Call("drawTitle", "SetFontColor", "", NoBox, "text", 0),
                          Call("drawTitle", "SetFontSize", "", NoBox, "", fs),
                          Call("drawTitle", "Text", ac.Title,
                               PointBox(ac.titleX, ac.titleY), "text", fs) >>
                /\ rFontSize' = fs
       ELSE UNCHANGED <<calls, rFontSize>>
    /\ pc' = "DrawDots"
    /\ i' = 0
    /\ UNCHANGED <<caller, ac, err, rpCalls, metric, bucketEvals>>
    /\ UNCHANGED <<laneVars, botVars>>

\* variant: the loop runs from the newest day to the oldest
DrawDot_newestFirst ==
    /\ pc = "DrawDots"
    /\ i < Len(ac.Days)
    /\ LET idx == Len(ac.Days) - 1 - i
           value == ac.Days[idx + 1]
       IN  IF getDotColorFaults(value, ac.maxValue)
           THEN /\ pc' = "Panic"
                /\ bucketEvals' = bucketEvals + 1
                /\ UNCHANGED <<calls, i>>
           ELSE /\ calls' = Append(calls,
                      Call("drawDots", "Box", "", dotBox(ac, idx),
                           getDotColor(value, ac.maxValue), idx))
                /\ bucketEvals' = bucketEvals + (IF getDotColorBuckets(value) THEN 2 ELSE 0)
                /\ i' = i + 1
                /\ pc' = IF i + 1 < Len(ac.Days) THEN "DrawDots" ELSE "DrawXAxis"
    /\ UNCHANGED <<caller, ac, err, rpCalls, metric, rFontSize>>
    /\ UNCHANGED <<laneVars, botVars>>

\* drawDots: one iteration of the loop; a fault in getDotColor is a panic
DrawDot ==
    /\ pc = "DrawDots"
    /\ i < Len(ac.Days)
    /\ LET value == ac.Days[i + 1]
       IN  IF getDotColorFaults(value, ac.maxValue)
           THEN /\ pc' = "Panic"
                /\ bucketEvals' = bucketEvals + 1
                /\ UNCHANGED <<calls, i>>
           ELSE /\ calls' = Append(calls,
                      Call("drawDots", "Box", "", dotBox(ac, i),
                           getDotColor(value, ac.maxValue), i))
                \* getDotStyle asks for the fill and for the stroke color
                /\ bucketEvals' = bucketEvals + (IF getDotColorBuckets(value) THEN 2 ELSE 0)
                /\ i' = i + 1
                /\ pc' = IF i + 1 < Len(ac.Days) THEN "DrawDots" ELSE "DrawXAxis"
    /\ UNCHANGED <<caller, ac, err, rpCalls, metric, rFontSize>>
    /\ UNCHANGED <<laneVars, botVars>>

DrawXAxis ==
    /\ pc = "DrawXAxis"
    /\ IF ac.XAxisShow
       THEN calls' = calls \o xAxisCalls(ac, metric) /\ rFontSize' = DefaultAxisFontSize
       ELSE UNCHANGED <<calls, rFontSize>>
    /\ pc' = "DrawYAxis"
    /\ UNCHANGED <<caller, ac, err, rpCalls, metric, i, bucketEvals>>
    /\ UNCHANGED <<laneVars, botVars>>

DrawYAxis ==
    /\ pc = "DrawYAxis"
    /\ IF ac.YAxisShow
       THEN calls' = calls \o yAxisCalls(ac, metric) /\ rFontSize' = DefaultAxisFontSize
       ELSE UNCHANGED <<calls, rFontSize>>
    /\ pc' = "Save"
    /\ UNCHANGED <<caller, ac, err, rpCalls, metric, i, bucketEvals>>
    /\ UNCHANGED <<laneVars, botVars>>

\* variant: the error of Save is dropped
saveResult_dropped(saveErr) == "nil"

\* what Render returns for the error Save returned
saveResult(saveErr) == saveErr

\* Render: finalize; the renderer's Save may fail and its error is returned
Save ==
    /\ pc = "Save"
    /\ \E saveErr \in {"nil", "Save failed"} :
         /\ calls' = Append(calls, Call("Render", "Save", saveErr, NoBox, "", 0))
         /\ Return(saveResult(saveErr))
    /\ UNCHANGED <<caller, ac, rpCalls, metric, rFontSize, i, bucketEvals>>
    /\ UNCHANGED <<laneVars, botVars>>

Next ==
    \/ Validate
    \/ SetDefaultFont
    \/ CreateRenderer
    \/ Layout
    \/ DrawBackground
    \/ DrawTitle
    \/ DrawDot
    \/ DrawXAxis
    \/ DrawYAxis
    \/ Save

Spec == Init /\ [][Next]_vars

(***************************************************************************)
(* A second family of inputs, for the layout arithmetic: canvas sizes      *)
(* around the breakpoints of the title font size, small, large and         *)
(* negative dot geometry, a short and a long series, both axes shown.      *)
(***************************************************************************)
GeomDims == {0, 100, 255, 256, 511, 512, 1023, 1024, 2047, 2048}

\* <<DotSize, DotSpacing>>
GeomDots == {<<0, 0>>, <<1, 1>>, <<3, -1>>, <<100, 3>>}

GeomSeries == {[k \in 1..n |-> Pattern("ramp", k)] : n \in {1, MaxLen}}

GeomCurrentDays == {0, daysPerWeek - 1}

GeomChart(w, h, dot, days, cd, ltr) ==
    NewChart([Title |-> "Activity", TitleShow |-> TRUE, Width |-> w, Height |-> h,
              DPI |-> 0, DotSize |-> dot[1], DotSpacing |-> dot[2], FontNil |-> TRUE],
             days, cd, ltr, TRUE, TRUE)

InitGeom ==
    /\ caller \in {GeomChart(w, h, dot, days, cd, ltr) :
                      w \in GeomDims, h \in GeomDims, dot \in GeomDots,
                      days \in GeomSeries, cd \in GeomCurrentDays, ltr \in BOOLEAN}
    /\ ac = caller
    /\ pc = "Validating"
    /\ err = "nil"
    /\ calls = << >>
    /\ rpCalls = 0
    /\ metric = 0
    /\ rFontSize = 0
    /\ i = 0
    /\ bucketEvals = 0
    /\ OneCall
    /\ BotIdle

SpecGeom == InitGeom /\ [][Next]_vars

(***************************************************************************)
(* Vocabulary of the properties.                                           *)
(***************************************************************************)
\* layout has run
LaidOut ==
    \/ pc \in {"DrawBackground", "DrawTitle", "DrawDots", "DrawXAxis", "DrawYAxis",
               "Save", "Panic"}
    \/ pc = "Done" /\ calls # << >>

ValidInput == Len(caller.Days) > 0 /\ caller.CurrentDay \in 0..6

NonNegative(days) == \A k \in 1..Len(days) : days[k] >= 0

AllZero(days) == \A k \in 1..Len(days) : days[k] = 0

\* the cells drawn so far, in the order the renderer received them
DotCalls == SelectSeq(calls, LAMBDA c : c.by = "drawDots" /\ c.op = "Box")

CallsBy(by) == SelectSeq(calls, LAMBDA c : c.by = by)

SwatchOf(color) == CHOOSE k \in 0..numColors : activityChartDefaultColors[k + 1] = color

LastSwatch == Len(activityChartDefaultColors) - 1

Pitch == GetDotSize(caller) + GetDotSpacing(caller)

Succeeded == pc = "Done" /\ err = "nil"

(***************************************************************************)
(* C1: Render with an empty series, or with CurrentDay outside [0,6],      *)
(* returns an error and the renderer sees nothing: no renderer is created  *)
(* and no call is issued.                                                  *)
(***************************************************************************)
Thm_C1_InvalidInputNoCalls ==
    ~ValidInput =>
        /\ rpCalls = 0
        /\ calls = << >>
        /\ pc \in {"Validating", "Done"}
        /\ pc = "Done" => err # "nil"

Wit_C1_InvalidInputNoCalls ==
    /\ pc = "Done"
    /\ Len(caller.Days) > 0
    /\ caller.CurrentDay = daysPerWeek
    /\ err # "nil"
    /\ rpCalls = 0

(***************************************************************************)
(* C2: after layout numWeeks = ceil((L + d) / 7): it is the least number   *)
(* of 7-row columns that holds the L days placed after d empty rows.       *)
(***************************************************************************)
Thm_C2_NumWeeksCeil ==
    LaidOut =>
        LET n == Len(caller.Days) + caller.CurrentDay
        IN  /\ ac.numWeeks * 7 >= n
            /\ (ac.numWeeks - 1) * 7 < n

Wit_C2_NumWeeksCeil ==
    /\ LaidOut
    /\ Len(caller.Days) = 10
    /\ caller.CurrentDay = 3
    /\ ac.numWeeks = 2

(***************************************************************************)
(* C3 (as claimed): whenever maxValue m > 0, every drawn cell whose value  *)
(* equals m has the last swatch of the palette.                            *)
(***************************************************************************)
Cex_C3_MaxGetsLastSwatch ==
    \A k \in 1..Len(DotCalls) :
        (ac.maxValue > 0 /\ caller.Days[DotCalls[k].num + 1] = ac.maxValue)
            => DotCalls[k].color = activityChartDefaultColors[LastSwatch + 1]

(***************************************************************************)
(* C4: a cell of value 0 is drawn with swatch 0 whatever maxValue is; for  *)
(* an all-zero series the bucket formula is never evaluated, every cell is *)
(* swatch 0, nothing faults and Render gets through to Save.               *)
(***************************************************************************)
Thm_C4_ZeroIsSwatchZero ==
    /\ \A k \in 1..Len(DotCalls) :
          caller.Days[DotCalls[k].num + 1] = 0
              => DotCalls[k].color = activityChartDefaultColors[1]
    /\ (ValidInput /\ AllZero(caller.Days)) =>
          /\ pc # "Panic"
          /\ bucketEvals = 0
          /\ LaidOut => ac.maxValue = 0
          /\ (pc \in {"DrawXAxis", "DrawYAxis", "Save"} \/ (pc = "Done" /\ calls # << >>))
                => Len(DotCalls) = Len(caller.Days)
          /\ (pc = "Done" /\ calls # << >>) => calls[Len(calls)].op = "Save"

Wit_C4_ZeroIsSwatchZero ==
    /\ Succeeded
    /\ Len(caller.Days) >= 2
    /\ AllZero(caller.Days)
    /\ Len(DotCalls) = Len(caller.Days)

(***************************************************************************)
(* C5: for a non-empty series of non-negative values every positive value  *)
(* v is drawn with bucket floor((v-1)*(numSwatches-1)/maxValue)+1, which   *)
(* lies in 1..numSwatches-1; the palette is never indexed out of range.    *)
(***************************************************************************)
Thm_C5_BucketInRange ==
    (ValidInput /\ NonNegative(caller.Days)) =>
        /\ pc # "Panic"
        /\ \A k \in 1..Len(DotCalls) :
              LET v == caller.Days[DotCalls[k].num + 1]
                  b == (((v - 1) * LastSwatch) \div ac.maxValue) + 1
              IN  v > 0 =>
                    /\ b \in 1..LastSwatch
                    /\ DotCalls[k].color = activityChartDefaultColors[b + 1]

Wit_C5_BucketInRange ==
    /\ Succeeded
    /\ NonNegative(caller.Days)
    /\ \E k \in 1..Len(DotCalls) :
          /\ caller.Days[DotCalls[k].num + 1] = 3
          /\ ac.maxValue = 5
          /\ DotCalls[k].color = activityChartDefaultColors[3]

(***************************************************************************)
(* C6: for a fixed maxValue m > 0 the swatch index is non-decreasing in    *)
(* the value over 0..m, both as computed and as drawn.                     *)
(***************************************************************************)
Thm_C6_BucketMonotone ==
    (LaidOut /\ ac.maxValue > 0) =>
        /\ \A v, w \in 0..ac.maxValue :
              v <= w => getDotColorIndex(v, ac.maxValue) <= getDotColorIndex(w, ac.maxValue)
        /\ \A j, k \in 1..Len(DotCalls) :
              LET v == caller.Days[DotCalls[j].num + 1]
                  w == caller.Days[DotCalls[k].num + 1]
              IN  (0 <= v /\ v <= w) => SwatchOf(DotCalls[j].color) <= SwatchOf(DotCalls[k].color)

Wit_C6_BucketMonotone ==
    /\ Succeeded
    /\ ac.maxValue = MaxVal
    /\ \E j, k \in 1..Len(DotCalls) :
          /\ 0 < caller.Days[DotCalls[j].num + 1]
          /\ caller.Days[DotCalls[j].num + 1] < caller.Days[DotCalls[k].num + 1]
          /\ SwatchOf(DotCalls[j].color) < SwatchOf(DotCalls[k].color)

(***************************************************************************)
(* C7: the right-to-left rendering is the horizontal mirror of the         *)
(* left-to-right one: for every day index the two columns add up to        *)
(* numWeeks-1 and the row is the same.                                     *)
(***************************************************************************)
ColOf(box) == (box.Left - ac.chartX) \div Pitch

RowOf(box) == (box.Top - ac.chartY) \div Pitch

Thm_C7_MirrorColumns ==
    LaidOut =>
        /\ \A idx \in 0..(Len(caller.Days) - 1) :
              dotWeek(idx, caller.CurrentDay, FALSE, ac.numWeeks)
                  = ac.numWeeks - 1 - dotWeek(idx, caller.CurrentDay, TRUE, ac.numWeeks)
        /\ \A k \in 1..Len(DotCalls) :
              LET mine == DotCalls[k].box
                  other == dotBox([ac EXCEPT !.LeftToRight = ~ac.LeftToRight], DotCalls[k].num)
              IN  /\ ColOf(mine) = ac.numWeeks - 1 - ColOf(other)
                  /\ RowOf(mine) = RowOf(other)
                  /\ mine.Top = other.Top
                  /\ mine.Bottom = other.Bottom

Wit_C7_MirrorColumns ==
    /\ Succeeded
    /\ ~caller.LeftToRight
    /\ ac.numWeeks = 3
    /\ \E k \in 1..Len(DotCalls) :
          /\ DotCalls[k].num = 0
          /\ ColOf(DotCalls[k].box) = 2

(***************************************************************************)
(* C8: the k-th cell drawn is day index i = k-1, at offset i + CurrentDay, *)
(* row offset mod 7, column offset div 7 (mirrored when right-to-left),    *)
(* with box Left = chartX + col*(dotSize+dotSpacing), Top = chartY +       *)
(* row*(dotSize+dotSpacing), Right = Left+dotSize, Bottom = Top+dotSize;   *)
(* series [3,0,5] with CurrentDay 0, left-to-right, fills rows 0,1,2 of    *)
(* column 0.                                                               *)
(***************************************************************************)
Thm_C8_CellBox ==
    /\ \A k \in 1..Len(DotCalls) :
          LET idx == DotCalls[k].num
              offset == idx + caller.CurrentDay
              row == offset % 7
              col == IF caller.LeftToRight THEN offset \div 7
                     ELSE ac.numWeeks - 1 - (offset \div 7)
              left == ac.chartX + col * Pitch
              top == ac.chartY + row * Pitch
          IN  /\ idx = k - 1
              /\ DotCalls[k].box = [Left |-> left, Top |-> top,
                                    Right |-> left + GetDotSize(caller),
                                    Bottom |-> top + GetDotSize(caller)]
    /\ (caller.Days = <<3, 0, 5>> /\ caller.CurrentDay = 0 /\ caller.LeftToRight) =>
          \A k \in 1..Len(DotCalls) :
              ColOf(DotCalls[k].box) = 0 /\ RowOf(DotCalls[k].box) = k - 1
    /\ pc \in {"DrawXAxis", "DrawYAxis", "Save"} => Len(DotCalls) = Len(caller.Days)

Wit_C8_CellBox ==
    /\ Succeeded
    /\ caller.Days = <<3, 0, 5>>
    /\ caller.CurrentDay = 0
    /\ caller.LeftToRight
    /\ Len(DotCalls) = 3
    /\ DotCalls[3].box.Top = ac.chartY + 2 * Pitch

(***************************************************************************)
(* C9: the renderer is driven in the order layout, background, title,      *)
(* cells, x axis, y axis, Save: no call of a later stage precedes a call   *)
(* of an earlier one, Save is the last call, and a successful Render has   *)
(* gone through every stage.                                               *)
(***************************************************************************)
StageRank(c) ==
    CASE c.by = "Render" /\ c.op = "SetDPI" -> 0
      [] c.by = "layout" -> 1
      [] c.by = "drawBackground" -> 2
      [] c.by = "drawTitle" -> 3
      [] c.by = "drawDots" -> 4
      [] c.by = "drawXAxis" -> 5
      [] c.by = "drawYAxis" -> 6
      [] c.by = "Render" /\ c.op = "Save" -> 7

TextsBy(by) == SelectSeq(calls, LAMBDA c : c.by = by /\ c.op = "Text")

Thm_C9_StageOrder ==
    /\ \A k \in 1..(Len(calls) - 1) : StageRank(calls[k]) <= StageRank(calls[k + 1])
    /\ \A k \in 1..Len(calls) : calls[k].op = "Save" => k = Len(calls)
    /\ Succeeded =>
          /\ calls[Len(calls)].op = "Save"
          /\ \E k \in 1..Len(calls) : calls[k].by = "layout" /\ calls[k].op = "MeasureText"
          /\ Len(CallsBy("drawBackground")) = 1
          /\ Len(TextsBy("drawTitle")) = 1
          /\ Len(DotCalls) = Len(caller.Days)
          /\ Len(TextsBy("drawXAxis")) =
                (IF caller.XAxisShow THEN Len(activityChartMonthLabels) ELSE 0)
          /\ Len(TextsBy("drawYAxis")) = (IF caller.YAxisShow THEN 4 ELSE 0)

Wit_C9_StageOrder ==
    /\ Succeeded
    /\ caller.XAxisShow
    /\ caller.YAxisShow
    /\ Len(caller.Days) >= 2
    /\ Len(calls) > 30

(***************************************************************************)
(* C10: when the renderer's Save fails Render returns that failure; Save   *)
(* is called at most once, exactly once when Render gets to the end, and   *)
(* only after every draw call has been issued.                             *)
(***************************************************************************)
SaveCalls == SelectSeq(calls, LAMBDA c : c.op = "Save")

Thm_C10_SaveOnceErrorReturned ==
    /\ Len(SaveCalls) <= 1
    /\ \A k \in 1..Len(calls) :
          calls[k].op = "Save" =>
              /\ k = Len(calls)
              /\ pc = "Done"
              /\ err = calls[k].text
              /\ Len(CallsBy("drawBackground")) = 1
              /\ Len(DotCalls) = Len(caller.Days)
              /\ caller.XAxisShow => Len(TextsBy("drawXAxis")) = 12
              /\ caller.YAxisShow => Len(TextsBy("drawYAxis")) = 4
    /\ (pc = "Done" /\ calls # << >>) => Len(SaveCalls) = 1

Wit_C10_SaveOnceErrorReturned ==
    /\ pc = "Done"
    /\ err = "Save failed"
    /\ Len(SaveCalls) = 1
    /\ calls[Len(calls)].text = "Save failed"
    /\ Len(DotCalls) = Len(caller.Days)

(***************************************************************************)
(* C11 (as claimed): Render returns an error only when the series is       *)
(* empty, CurrentDay is outside [0,6], or the renderer's Save failed.      *)
(***************************************************************************)
SaveFailed ==
    /\ calls # << >>
    /\ calls[Len(calls)].op = "Save"
    /\ calls[Len(calls)].text # "nil"

Cex_C11_OnlyThreeErrors ==
    (pc = "Done" /\ err # "nil") =>
        \/ Len(caller.Days) = 0
        \/ caller.CurrentDay \notin 0..6
        \/ SaveFailed

(***************************************************************************)
(* C11 (amended): Render returns an error only when the series is empty,   *)
(* CurrentDay is outside [0,6], loading the default font fails (only tried *)
(* when no font is configured), the renderer provider fails, or Save       *)
(* fails; once the renderer exists, layout and drawing return no error.    *)
(***************************************************************************)
Thm_C11_ErrorSources ==
    /\ (pc = "Done" /\ err # "nil") =>
          \/ Len(caller.Days) = 0 /\ calls = << >> /\ rpCalls = 0
          \/ caller.CurrentDay \notin 0..6 /\ calls = << >> /\ rpCalls = 0
          \/ /\ err = "GetDefaultFont failed"
             /\ caller.FontNil
             /\ calls = << >>
             /\ rpCalls = 0
          \/ /\ err = "renderer provider failed"
             /\ calls = << >>
             /\ rpCalls = 1
          \/ SaveFailed /\ err = calls[Len(calls)].text
    /\ (pc # "Done") => err = "nil"

Wit_C11_ErrorSources ==
    /\ pc = "Done"
    /\ ValidInput
    /\ err = "renderer provider failed"
    /\ rpCalls = 1
    /\ calls = << >>

(***************************************************************************)
(* C12 (as claimed): the title that layout measures and that drawTitle     *)
(* draws is the title configured in the chart.                             *)
(***************************************************************************)
Cex_C12_TitleIsConfigured ==
    \A k \in 1..Len(calls) :
        (\/ calls[k].by = "layout" /\ calls[k].op = "MeasureText"
         \/ calls[k].by = "drawTitle" /\ calls[k].op = "Text")
            => calls[k].text = caller.Title

(***************************************************************************)
(* C13 (as claimed): whenever canvasHeight >= titleY + chartHeight, the    *)
(* chart top is at or below the title anchor and the gap from titleY to    *)
(* the chart top equals the gap from the chart bottom to the canvas bottom *)
(* up to 1 px.                                                             *)
(***************************************************************************)
Cex_C13_CentredBelowTitle ==
    (LaidOut /\ GetHeight(caller) >= ac.titleY + ac.chartHeight) =>
        /\ ac.chartY >= ac.titleY
        /\ Abs((ac.chartY - ac.titleY)
               - (GetHeight(caller) - (ac.chartY + ac.chartHeight))) <= 1

(***************************************************************************)
(* C14: chartX is (canvasWidth - chartWidth)/2; for every canvas at least  *)
(* as wide as the chart the left and the right margin are non-negative and *)
(* differ by at most 1 px.                                                 *)
(***************************************************************************)
LeftMargin == ac.chartX

RightMargin == GetWidth(caller) - (ac.chartX + ac.chartWidth)

Thm_C14_CentredHorizontally ==
    (LaidOut /\ GetWidth(caller) >= ac.chartWidth) =>
        /\ 2 * ac.chartX <= GetWidth(caller) - ac.chartWidth
        /\ GetWidth(caller) - ac.chartWidth < 2 * ac.chartX + 2
        /\ LeftMargin >= 0
        /\ RightMargin >= 0
        /\ Abs(LeftMargin - RightMargin) <= 1

Wit_C14_CentredHorizontally ==
    /\ LaidOut
    /\ GetWidth(caller) >= ac.chartWidth
    /\ ac.chartWidth > 100
    /\ RightMargin = LeftMargin + 1

(***************************************************************************)
(* C15: after layout chartWidth = numWeeks*dotSize + (numWeeks-1)*spacing  *)
(* and chartHeight = 7*dotSize + 6*spacing, with 16 and 2 standing in for  *)
(* a configured 0; drawXAxis recomputes the same width.                    *)
(***************************************************************************)
EffectiveDotSize == IF caller.DotSize = 0 THEN 16 ELSE caller.DotSize

EffectiveDotSpacing == IF caller.DotSpacing = 0 THEN 2 ELSE caller.DotSpacing

Thm_C15_ChartAreaSize ==
    LaidOut =>
        /\ ac.chartWidth = ac.numWeeks * EffectiveDotSize
                              + (ac.numWeeks - 1) * EffectiveDotSpacing
        /\ ac.chartHeight = 7 * EffectiveDotSize + 6 * EffectiveDotSpacing
        /\ xAxisWidth(ac) = ac.chartWidth

Wit_C15_ChartAreaSize ==
    /\ LaidOut
    /\ caller.DotSize = 0
    /\ caller.DotSpacing = 0
    /\ ac.numWeeks = 3
    /\ ac.chartWidth = 52
    /\ ac.chartHeight = 124

(***************************************************************************)
(* C16: the title font size set by layout and by drawTitle is 48 for       *)
(* min(width, height) >= 2048, 24 from 1024, 18 from 512, 12 from 256 and  *)
(* 10 below.                                                               *)
(***************************************************************************)
SmallerSide ==
    IF GetWidth(caller) < GetHeight(caller) THEN GetWidth(caller) ELSE GetHeight(caller)

StepFontSize(d) ==
    CASE d >= 2048 -> 48
      [] d \in 1024..2047 -> 24
      [] d \in 512..1023 -> 18
      [] d \in 256..511 -> 12
      [] d < 256 -> 10

Thm_C16_TitleFontSize ==
    /\ \A k \in 1..Len(calls) :
          (calls[k].op = "SetFontSize" /\ calls[k].by \in {"layout", "drawTitle"})
              => calls[k].num = StepFontSize(SmallerSide)
    /\ LaidOut => rFontSize \in {StepFontSize(SmallerSide), DefaultAxisFontSize}

Wit_C16_TitleFontSize ==
    /\ Succeeded
    /\ SmallerSide = 512
    /\ \E k \in 1..Len(calls) :
          calls[k].op = "SetFontSize" /\ calls[k].by = "layout" /\ calls[k].num = 18

(***************************************************************************)
(* C17: with dotSize >= 1 and dotSpacing >= 1 two distinct day indices get *)
(* distinct (col,row) cells, and the boxes drawn for them have disjoint    *)
(* interiors, for every CurrentDay in 0..6 and either LeftToRight setting. *)
(***************************************************************************)
CellOf(idx) ==
    <<dotWeek(idx, caller.CurrentDay, caller.LeftToRight, ac.numWeeks),
      dotDay(idx, caller.CurrentDay)>>

InteriorsDisjoint(a, b) ==
    \/ a.Right <= b.Left
    \/ b.Right <= a.Left
    \/ a.Bottom <= b.Top
    \/ b.Bottom <= a.Top

Thm_C17_CellsDisjoint ==
    (LaidOut /\ GetDotSize(caller) >= 1 /\ GetDotSpacing(caller) >= 1) =>
        /\ \A a, b \in 0..(Len(caller.Days) - 1) : a # b => CellOf(a) # CellOf(b)
        /\ \A j, k \in 1..Len(DotCalls) :
              j < k => InteriorsDisjoint(DotCalls[j].box, DotCalls[k].box)

Wit_C17_CellsDisjoint ==
    /\ Succeeded
    /\ ~caller.LeftToRight
    /\ caller.CurrentDay = 6
    /\ Len(caller.Days) > daysPerWeek
    /\ Len(DotCalls) = Len(caller.Days)
    /\ DotCalls[1].box.Top = DotCalls[8].box.Top

(***************************************************************************)
(* C18: the 12 month labels are drawn from chartX on, each one its own     *)
(* width plus gap after the previous, with gap = (chartWidth - sum of the  *)
(* label widths) / 11; for chartWidth >= the sum of the widths the 12      *)
(* widths plus the 11 gaps fall short of chartWidth by less than 11 px,    *)
(* the rounding of the gap.                                                *)
(***************************************************************************)
XTexts == TextsBy("drawXAxis")

MonthWidth(k) == MeasureText(activityChartMonthLabels[k], DefaultAxisFontSize, metric).Width

RECURSIVE MonthWidths(_)
MonthWidths(n) == IF n = 0 THEN 0 ELSE MonthWidths(n - 1) + MonthWidth(n)

MonthAdvances == XTexts[12].box.Left + MonthWidth(12) - ac.chartX

Thm_C18_MonthLabelAdvance ==
    XTexts # << >> =>
        LET gap == XTexts[2].box.Left - XTexts[1].box.Left - MonthWidth(1)
        IN  /\ Len(XTexts) = 12
            /\ XTexts[1].box.Left = ac.chartX
            /\ \A k \in 1..12 : XTexts[k].text = activityChartMonthLabels[k]
            /\ \A k \in 1..11 :
                  XTexts[k + 1].box.Left = XTexts[k].box.Left + MonthWidth(k) + gap
            /\ ac.chartWidth >= MonthWidths(12) =>
                  /\ gap = (ac.chartWidth - MonthWidths(12)) \div 11
                  /\ gap >= 0
                  /\ MonthAdvances = MonthWidths(12) + 11 * gap
                  /\ MonthAdvances <= ac.chartWidth
                  /\ ac.chartWidth - MonthAdvances < 11

Wit_C18_MonthLabelAdvance ==
    /\ Succeeded
    /\ XTexts # << >>
    /\ ac.chartWidth >= MonthWidths(12)
    /\ MonthAdvances < ac.chartWidth
    /\ XTexts[2].box.Left > XTexts[1].box.Left + MonthWidth(1)

(***************************************************************************)
(* C19: the weekday pass draws exactly the rows with a non-empty label     *)
(* (0, 2, 4, 6), each at x = chartX - widest label - 5 and y = chartY +    *)
(* row*(dotSize+dotSpacing) + the label's measured height; empty labels    *)
(* produce no draw call.                                                   *)
(***************************************************************************)
YTexts == TextsBy("drawYAxis")

DayLabelBox(row) == MeasureText(activityChartDayLabels[row + 1], DefaultAxisFontSize, metric)

WidestDayLabel ==
    CHOOSE w \in {DayLabelBox(row).Width : row \in 0..6} :
        \A row \in 0..6 : DayLabelBox(row).Width <= w

Thm_C19_WeekdayLabels ==
    /\ \A k \in 1..Len(YTexts) : YTexts[k].text # ""
    /\ YTexts # << >> =>
          /\ Len(YTexts) = 4
          /\ \A n \in 1..4 :
                LET row == 2 * (n - 1)
                IN  /\ YTexts[n].text = activityChartDayLabels[row + 1]
                    /\ YTexts[n].box.Left = ac.chartX - WidestDayLabel - 5
                    /\ YTexts[n].box.Top =
                          ac.chartY + row * (EffectiveDotSize + EffectiveDotSpacing)
                                    + DayLabelBox(row).Height
    /\ (pc = "Save" /\ caller.YAxisShow) => YTexts # << >>

Wit_C19_WeekdayLabels ==
    /\ Succeeded
    /\ Len(YTexts) = 4
    /\ YTexts[4].text = "Sun"
    /\ caller.DotSize = 100
    /\ YTexts[4].box.Top = ac.chartY + 6 * 103 + DefaultAxisFontSize

(***************************************************************************)
(* C20: the cells reach the renderer in series order: the box of day i     *)
(* comes before the box of day j whenever i < j, under either LeftToRight  *)
(* setting.                                                                *)
(***************************************************************************)
Thm_C20_SeriesOrder ==
    /\ \A j, k \in 1..Len(DotCalls) :
          (j < k) <=> (DotCalls[j].num < DotCalls[k].num)
    /\ \A k \in 1..Len(DotCalls) :
          DotCalls[k].box = dotBox(ac, DotCalls[k].num)
    /\ (pc = "DrawDots" /\ Len(DotCalls) > 0) => DotCalls[Len(DotCalls)].num = i - 1

Wit_C20_SeriesOrder ==
    /\ Succeeded
    /\ ~caller.LeftToRight
    /\ Len(DotCalls) = Len(caller.Days)
    /\ Len(DotCalls) > daysPerWeek
    /\ DotCalls[1].num = 0
    /\ DotCalls[1].box.Left > DotCalls[Len(DotCalls)].box.Left

(***************************************************************************)
(* Two Render calls of the same chart value, each with a renderer of its   *)
(* own.  Render has a value receiver: every call works on a copy of the    *)
(* caller's struct taken when the call is made; the Days slice of the copy *)
(* shares the caller's backing array.  The variables of Render describe    *)
(* the call the scheduler is running, `parked' holds the other call.       *)
(***************************************************************************)
MaxTwoLen == 2       \* longest series rendered twice

\* the state of the running call, as it is parked
Running ==
    [pc |-> pc, ac |-> ac, err |-> err, calls |-> calls, rpCalls |-> rpCalls,
     metric |-> metric, rFontSize |-> rFontSize, i |-> i, bucketEvals |-> bucketEvals,
     lane |-> lane]

\* variant: both calls draw on one renderer instance
Resume_sharedRenderer(l) ==
    /\ pc' = l.pc
    /\ ac' = l.ac
    /\ err' = l.err
    /\ calls' = calls
    /\ rpCalls' = l.rpCalls
    /\ metric' = l.metric
    /\ rFontSize' = l.rFontSize
    /\ i' = l.i
    /\ bucketEvals' = l.bucketEvals
    /\ lane' = l.lane

\* the scheduler resumes call l: its receiver copy, renderer and locals
Resume(l) ==
    /\ pc' = l.pc
    /\ ac' = l.ac
    /\ err' = l.err
    /\ calls' = l.calls
    /\ rpCalls' = l.rpCalls
    /\ metric' = l.metric
    /\ rFontSize' = l.rFontSize
    /\ i' = l.i
    /\ bucketEvals' = l.bucketEvals
    /\ lane' = l.lane

\* the second call of Render is made (while the first runs, or after it
\* returned): the receiver is copied from the caller's chart as it is now
CallAgain ==
    /\ parked.pc = "NotCalled"
    /\ parked' = Running
    /\ Resume([NotCalled EXCEPT !.pc = "Validating", !.ac = caller,
                                !.lane.afterReturn = (pc \in {"Done", "Panic"})])
    /\ UNCHANGED <<caller, botVars>>

\* the scheduler switches between the two running calls
Switch ==
    /\ parked.pc \notin {"NotCalled", "Done", "Panic"}
    /\ parked' = Running
    /\ Resume(parked)
    /\ UNCHANGED <<caller, botVars>>

TwoSeries == {[k \in 1..n |-> Pattern("scenario", k)] : n \in 1..MaxTwoLen}

InitTwo ==
    /\ caller \in {NewChart(p, days, cd, ltr, TRUE, TRUE) :
                      p \in Presets, days \in TwoSeries, cd \in GeomCurrentDays,
                      ltr \in BOOLEAN}
    /\ ac = caller
    /\ pc = "Validating"
    /\ err = "nil"
    /\ calls = << >>
    /\ rpCalls = 0
    /\ metric = 0
    /\ rFontSize = 0
    /\ i = 0
    /\ bucketEvals = 0
    /\ OneCall
    /\ BotIdle

NextTwo ==
    \/ Validate
    \/ SetDefaultFont
    \/ CreateRenderer
    \/ Layout
    \/ DrawBackground
    \/ DrawTitle
    \/ DrawDot
    \/ DrawXAxis
    \/ DrawYAxis
    \/ Save
    \/ CallAgain
    \/ Switch

SpecTwo == InitTwo /\ [][NextTwo]_vars

(***************************************************************************)
(* Vocabulary of the two-call properties.                                  *)
(***************************************************************************)
IsPrefix(a, b) == Len(a) <= Len(b) /\ SubSeq(b, 1, Len(a)) = a

\* the calls a renderer received, its final Save apart
NoSave(cs) == SelectSeq(cs, LAMBDA c : c.op # "Save")

\* what one Render call of the caller's chart, running alone, asks of a
\* renderer of glyph metric m before it saves: the reference sequence
AloneCalls(m) ==
    LET c1 == [caller EXCEPT !.Title = renderTitle(caller), !.TitleShow = TRUE]
        fs == getTitleFontSize(c1)
        c == layout(c1, MeasureText(c1.Title, fs, m))
    IN  << Call("Render", "SetDPI", "", NoBox, "", GetDPI(caller)),
           Call("layout", "SetFont", "", NoBox, "", 0),
           Call("layout", "SetFontSize", "", NoBox, "", fs),
           Call("layout", "MeasureText", c1.Title, NoBox, "", fs),
           Call("drawBackground", "Box", "",
                [Left |-> 0, Top |-> 0, Right |-> GetWidth(c), Bottom |-> GetHeight(c)],
                "background", 0),
           Call("drawTitle", "SetFont", "", NoBox, "", 0),
           Call("drawTitle", "SetFontColor", "", NoBox, "text", 0),
           Call("drawTitle", "SetFontSize", "", NoBox, "", fs),
           Call("drawTitle", "Text", c.Title, PointBox(c.titleX, c.titleY), "text", fs) >>
        \o [k \in 1..Len(c.Days) |->
               Call("drawDots", "Box", "", dotBox(c, k - 1),
                    getDotColor(c.Days[k], c.maxValue), k - 1)]
        \o (IF c.XAxisShow THEN xAxisCalls(c, m) ELSE << >>)
        \o (IF c.YAxisShow THEN yAxisCalls(c, m) ELSE << >>)

SecondCalled == parked.pc # "NotCalled"

\* a call has handed its last drawing call to its renderer
Drawn(l) == l.pc \in {"Save", "Done"} /\ l.calls # << >>

(***************************************************************************)
(* C21: two Render calls of the same chart value that run concurrently,    *)
(* each with its own renderer, do not interfere: at every moment each      *)
(* renderer has received a prefix of the sequence a call running alone     *)
(* issues, and the whole of it once the call has drawn everything; and no  *)
(* call writes what the other reads (the shared Days of the caller).       *)
(***************************************************************************)
Thm_C21_ConcurrentRenders ==
    /\ IsPrefix(NoSave(calls), AloneCalls(metric))
    /\ Drawn(Running) => NoSave(calls) = AloneCalls(metric)
    /\ ac.Days = caller.Days
    /\ SecondCalled =>
          /\ IsPrefix(NoSave(parked.calls), AloneCalls(parked.metric))
          /\ Drawn(parked) => NoSave(parked.calls) = AloneCalls(parked.metric)
          /\ parked.ac.Days = caller.Days

Wit_C21_ConcurrentRenders ==
    /\ SecondCalled
    /\ lane.id = 1
    /\ ~parked.lane.afterReturn
    /\ Succeeded
    /\ parked.pc = "Done"
    /\ parked.err = "nil"
    /\ Len(caller.Days) = 2
    /\ calls = parked.calls
    /\ Len(DotCalls) = 2

(***************************************************************************)
(* C22: Render works on a copy: no step of it changes the caller's chart   *)
(* (Title, TitleStyle, Days, the layout fields), whether it returns an     *)
(* error or not; and a second Render of the same value, made after the     *)
(* first returned, starts from the same chart and, with the same outcome,  *)
(* hands its renderer the same sequence of calls.                          *)
(***************************************************************************)
SecondAfterFirst == lane.id = 2 /\ lane.afterReturn

Thm_C22_CallerUntouched ==
    /\ [][caller' = caller]_vars
    /\ [](SecondAfterFirst =>
             /\ pc = "Validating" => ac = caller
             /\ (pc = "Done" /\ err = parked.err) => calls = parked.calls)

Wit_C22_CallerUntouched ==
    /\ SecondAfterFirst
    /\ Succeeded
    /\ parked.err = "nil"
    /\ calls = parked.calls
    /\ Len(DotCalls) = Len(caller.Days)
    /\ caller.Title = "Activity"
    /\ ac.Title # caller.Title
    /\ caller.titleY = 0
    /\ ac.titleY > 0
    /\ parked.ac.titleY = ac.titleY

(***************************************************************************)
(* GetHeight in the three versions of the ActivityChart file.              *)
(***************************************************************************)
ActivityChartVersions == {"part_001", "part_002", "part_003"}

GetHeight_part001(c) == IF c.Width = 0 THEN DefaultChartHeight ELSE c.Height

GetHeight_part003(c) == IF c.Width = 0 THEN DefaultChartHeight ELSE c.Height

GetHeightIn(version, c) ==
    CASE version = "part_001" -> GetHeight_part001(c)
      [] version = "part_002" -> GetHeight(c)
      [] version = "part_003" -> GetHeight_part003(c)

(***************************************************************************)
(* C23 (as claimed): in every version of ActivityChart, GetHeight returns  *)
(* the default height exactly when the configured Height is 0, and the     *)
(* configured Height otherwise, whatever the configured Width.             *)
(***************************************************************************)
Cex_C23_HeightDefaultsOnHeight ==
    \A version \in ActivityChartVersions :
        GetHeightIn(version, caller) =
            IF caller.Height = 0 THEN DefaultChartHeight ELSE caller.Height

(***************************************************************************)
(* C24: after layout of a non-empty series of non-negative values maxValue *)
(* is the largest element of the series (0 when all are 0); and it only    *)
(* chooses colours: every layout field, every cell box and every label     *)
(* position is what it is for the all-zero series of the same length.      *)
(***************************************************************************)
\* the laid-out chart of the all-zero series of the same length
Flat ==
    LET fs == getTitleFontSize(ac)
    IN  layout([ac EXCEPT !.Days = [k \in 1..Len(ac.Days) |-> 0]],
               MeasureText(ac.Title, fs, metric))

Geometry(c) ==
    <<c.titleX, c.titleY, c.chartX, c.chartY, c.chartWidth, c.chartHeight, c.numWeeks>>

Thm_C24_MaxValueOnlyColours ==
    (LaidOut /\ ValidInput /\ NonNegative(caller.Days)) =>
        /\ \E k \in 1..Len(caller.Days) : caller.Days[k] = ac.maxValue
        /\ \A k \in 1..Len(caller.Days) : caller.Days[k] <= ac.maxValue
        /\ AllZero(caller.Days) => ac.maxValue = 0
        /\ Flat.maxValue = 0
        /\ Geometry(ac) = Geometry(Flat)
        \* the renderer's log only grows: it is read when drawing has ended
        /\ pc \in {"Save", "Panic"} =>
              /\ \A k \in 1..Len(DotCalls) : DotCalls[k].box = dotBox(Flat, DotCalls[k].num)
              /\ \A k \in 1..Len(TextsBy("drawTitle")) :
                    TextsBy("drawTitle")[k].box = PointBox(Flat.titleX, Flat.titleY)
              /\ caller.XAxisShow => CallsBy("drawXAxis") = xAxisCalls(Flat, metric)
              /\ caller.YAxisShow => CallsBy("drawYAxis") = yAxisCalls(Flat, metric)

Wit_C24_MaxValueOnlyColours ==
    /\ Succeeded
    /\ Len(caller.Days) = 5
    /\ caller.Days[3] = 5
    /\ caller.Days[5] = 0
    /\ ac.maxValue = 5
    /\ Len(DotCalls) = 5
    /\ Len(CallsBy("drawXAxis")) > 0
    /\ Len(CallsBy("drawYAxis")) > 0

(***************************************************************************)
(* C25: every cell lies inside the chart area: its row is in 0..6 and its  *)
(* column in 0..numWeeks-1 under both directions, so its box is inside     *)
(* [chartX, chartX+chartWidth] x [chartY, chartY+chartHeight]; and the     *)
(* week count is tight: the last day is in column numWeeks-1 when          *)
(* left-to-right and in column 0 when right-to-left.                       *)
(***************************************************************************)
\* a cell has just been drawn: it is the last call the renderer received
CellJustDrawn == pc \in {"DrawDots", "DrawXAxis"} /\ i > 0

Thm_C25_CellsInsideChart ==
    (ValidInput /\ CellJustDrawn) =>
        LET cell == calls[Len(calls)]
            box == cell.box
        IN  /\ cell.by = "drawDots"
            /\ cell.num = i - 1
            /\ RowOf(box) \in 0..(daysPerWeek - 1)
            /\ ColOf(box) \in 0..(ac.numWeeks - 1)
            /\ box.Left = ac.chartX + ColOf(box) * Pitch
            /\ box.Top = ac.chartY + RowOf(box) * Pitch
            /\ ac.chartX <= box.Left
            /\ box.Right <= ac.chartX + ac.chartWidth
            /\ ac.chartY <= box.Top
            /\ box.Bottom <= ac.chartY + ac.chartHeight
            /\ cell.num = Len(caller.Days) - 1 =>
                  ColOf(box) = IF caller.LeftToRight THEN ac.numWeeks - 1 ELSE 0

Wit_C25_CellsInsideChart ==
    /\ pc = "DrawXAxis"
    /\ ~caller.LeftToRight
    /\ Len(caller.Days) = 12
    /\ caller.CurrentDay = 6
    /\ ac.numWeeks = 3
    /\ calls[Len(calls)].num = 11
    /\ ColOf(calls[Len(calls)].box) = 0
    /\ RowOf(calls[Len(calls)].box) = 3

(***************************************************************************)
(* The bot (main.go).  The update loop starts one goroutine per message    *)
(* (reply); a handler is the state of that goroutine.  The events table    *)
(* is the sequence of its rows in insertion order.  The outside world      *)
(* (Telegram's Send, SQLite's Exec, go-chart's Render) may fail: a failure *)
(* is injected nondeterministically, at most MaxFaults times in a run.     *)
(***************************************************************************)
MaxMsgs == 2         \* messages received in a run
MaxFaults == 1       \* failures of Send, Exec or Render in a run

defaultChartDays == 30
defaultTopCount == 10
minTopCount == 3
maxTopCount == 25

secondsPerDay == 24 * 60 * 60

\* the date of the messages of the run (they arrive within one second)
Now == 100 * secondsPerDay

Senders == {7}

\* message.Command() ("" when the message is no command) and the text
\* (message.Text, or message.CommandArguments() of a command)
Inbox ==
    ({"", "a", "add", "c", "chart", "s", "since"} \X {"", "run"})
        \cup ({"e", "export", "h", "help", "test", "start", "tc", "topchart"} \X {""})
        \cup ({"t", "top"} \X {"", "2"})

\* the events table when the bot starts: empty, or left by earlier runs
Preloaded ==
    << [user |-> 7, name |-> "run", date |-> Now - secondsPerDay],
       [user |-> 7, name |-> "run", date |-> Now + 2 * secondsPerDay],
       [user |-> 8, name |-> "run", date |-> Now - 2 * secondsPerDay],
       [user |-> 7, name |-> "run", date |-> Now - 45 * secondsPerDay],
       [user |-> 7, name |-> "run", date |-> Now - secondsPerDay + 1],
       [user |-> 7, name |-> "nap", date |-> Now - 3 * secondsPerDay],
       [user |-> 7, name |-> "run", date |-> Now - 30 * secondsPerDay + 1],
       [user |-> 7, name |-> "run", date |-> Now - 30 * secondsPerDay],
       [user |-> 7, name |-> "run", date |-> Now - 3600],
       [user |-> 7, name |-> "run", date |-> Now + 3600] >>

Stores == {<< >>, Preloaded}

\* the switch of reply
handlerOf(command) ==
    CASE command \in {"", "a", "add"} -> "add"
      [] command \in {"c", "chart"} -> "chart"
      [] command \in {"e", "export"} -> "export"
      [] command \in {"h", "help"} -> "help"
      [] command \in {"s", "since"} -> "since"
      [] command \in {"t", "top"} -> "top"
      [] command \in {"tc", "topchart"} -> "topChart"
      [] command = "test" -> "test"
      [] OTHER -> "unknown"

\* what the handler is called with: the text for add, chart, since, top and
\* topChart, the command for the default case, nothing for the others
argumentOf(command, text) ==
    CASE handlerOf(command) \in {"add", "chart", "since", "top", "topChart"} -> text
      [] handlerOf(command) = "unknown" -> command
      [] OTHER -> ""

\* the goroutine reply(message, db, bot) when it starts
NewHandler(user, command, text, date) ==
    [user |-> user, handler |-> handlerOf(command), arg |-> argumentOf(command, text),
     date |-> date, at |-> "Start", conn |-> FALSE, response |-> "", bg |-> "none",
     days |-> << >>, seen |-> 0, top |-> << >>, out |-> << >>, panic |-> ""]

(***************************************************************************)
(* Queries.                                                                *)
(***************************************************************************)
Rows(table, user, name) ==
    SelectSeq(table, LAMBDA r : r.user = user /\ r.name = name)

Remove(s, k) == SubSeq(s, 1, k - 1) \o SubSeq(s, k + 1, Len(s))

\* ORDER BY date DESC
RECURSIVE OrderByDateDesc(_)
OrderByDateDesc(rows) ==
    IF rows = << >> THEN << >>
    ELSE LET k == CHOOSE k \in 1..Len(rows) : \A j \in 1..Len(rows) : rows[j].date <= rows[k].date
         IN  <<rows[k]>> \o OrderByDateDesc(Remove(rows, k))

\* durafmt.ParseShort of a duration (external): here the number of seconds
Duration(seconds) == IntStr(seconds) \o "s"

formatResponse(name, date, prevDate) ==
    Duration(date - prevDate) \o " since last '" \o name \o "'"

\* SELECT date ... ORDER BY date DESC LIMIT 1, and the callback on its row
buildSinceResponse(name, now, userID, table) ==
    LET found == OrderByDateDesc(Rows(table, userID, name))
    IN  IF found = << >> THEN "" ELSE formatResponse(name, now, found[1].date)

firstTime(name) == "First time for '" \o name \o "'"

\* the age in whole days of an event, dates in the future counted as today
chartDaysAgo(now, date) ==
    LET daysAgo == GoDiv(now - date, secondsPerDay)
    IN  IF daysAgo < 0 THEN 0 ELSE daysAgo

\* variant: the scan stops one day late
chartStops_late(daysAgo, numDays) == daysAgo > numDays

\* the callback returns done
chartStops(daysAgo, numDays) == daysAgo >= numDays

\* the callback of chart over the rows from the k-th on; fault is an index
\* of days out of range (a run-time panic)
RECURSIVE chartScan(_, _, _, _)
chartScan(rows, k, now, days) ==
    IF k > Len(rows) THEN [days |-> days, fault |-> FALSE]
    ELSE LET daysAgo == chartDaysAgo(now, rows[k].date)
         IN  IF chartStops(daysAgo, Len(days)) THEN [days |-> days, fault |-> FALSE]
             ELSE IF daysAgo + 1 \notin DOMAIN days THEN [days |-> days, fault |-> TRUE]
             ELSE chartScan(rows, k + 1, now, [days EXCEPT ![daysAgo + 1] = @ + 1])

chartDays(name, now, userID, table) ==
    chartScan(OrderByDateDesc(Rows(table, userID, name)), 1, now,
              [k \in 1..defaultChartDays |-> 0])

clamp(value, min, max) ==
    IF value < min THEN min ELSE IF value > max THEN max ELSE value

\* strconv.Atoi on the numerals around the clamped range; an error otherwise
parseTopArgs(args) ==
    LET nums == {n \in (0 - maxTopCount - 1)..(maxTopCount + 1) : IntStr(n) = args}
    IN  IF nums = {} THEN defaultTopCount
        ELSE clamp(CHOOSE n \in nums : TRUE, minTopCount, maxTopCount)

NamesOf(table, user) == {table[j].name : j \in {j \in 1..Len(table) : table[j].user = user}}

\* the results SELECT name, COUNT(name) freq ... GROUP BY name ORDER BY freq
\* DESC LIMIT num may give: the order of equal counts is not specified
getTopEvents(num, userID, table) ==
    LET names == NamesOf(table, userID)
        freq(n) == Len(Rows(table, userID, n))
        len == IF Cardinality(names) < num THEN Cardinality(names) ELSE num
    IN  { [k \in 1..len |-> [name |-> o[k], count |-> freq(o[k])]] :
            o \in { o \in [1..len -> names] :
                      /\ \A a, b \in 1..len : a < b => (o[a] # o[b] /\ freq(o[a]) >= freq(o[b]))
                      /\ \A n \in names :
                            (\A a \in 1..len : o[a] # n) =>
                                \A a \in 1..len : freq(o[a]) >= freq(n) } }

RECURSIVE topLines(_, _)
topLines(list, k) ==
    IF k > Len(list) THEN ""
    ELSE list[k].name \o ": " \o IntStr(list[k].count) \o "\n" \o topLines(list, k + 1)

\* the fence of a Markdown code block (three grave accents)
fence == "~~~"

topResponse(num, list) ==
    "These are your " \o IntStr(num) \o " most logged events:\n" \o fence \o "\n"
        \o topLines(list, 1) \o fence \o "\n"

internalError(r) == "*Internal error:*\n" \o fence \o "\n" \o r \o "\n" \o fence \o "\n"

(***************************************************************************)
(* Steps of the handlers.  A step picks one goroutine h of the bag.        *)
(***************************************************************************)
ChartIdle ==
    /\ caller = NewChart(CHOOSE p \in Presets : p.FontNil, << >>, 0, FALSE, FALSE, FALSE)
    /\ ac = caller
    /\ pc = "Done"
    /\ err = "nil"
    /\ calls = << >>
    /\ rpCalls = 0
    /\ metric = 0
    /\ rFontSize = 0
    /\ i = 0
    /\ bucketEvals = 0
    /\ OneCall

InitBot ==
    /\ events \in Stores
    /\ msgs = EmptyBag
    /\ pool = poolSize
    /\ alive = TRUE
    /\ faults = 0
    /\ ChartIdle

Handlers == BagToSet(msgs)

\* goroutine h goes on as h2
Becomes(h, h2) == msgs' = (msgs (-) SetToBag({h})) (+) SetToBag({h2})

\* the environment lets the call succeed, or makes it fail
Inject(ok) ==
    /\ ok \/ faults < MaxFaults
    /\ faults' = IF ok THEN faults ELSE faults + 1

\* variant: Put at the end of the function, not deferred
Put_notDeferred(idle, held, panicking) == IF held /\ ~panicking THEN idle + 1 ELSE idle

\* defer c.db.Put(connection): runs on return and on panic
Put(idle, held, panicking) == IF held THEN idle + 1 ELSE idle

\* log.Panic(value): the deferred Put runs, then the deferred function of
\* reply recovers
Panic(h, value) ==
    /\ Becomes(h, [h EXCEPT !.at = "Recover", !.panic = value, !.conn = FALSE])
    /\ pool' = Put(pool, h.conn, TRUE)

\* the handler returns as h2, having sent text
Returns(h, h2, text) ==
    /\ Becomes(h, [h2 EXCEPT !.at = "Done", !.conn = FALSE, !.out = Append(h2.out, text)])
    /\ pool' = Put(pool, h.conn, FALSE)

\* connection := c.db.Get(nil): waits for an idle connection
Get(h, at) ==
    /\ pool > 0
    /\ pool' = pool - 1
    /\ Becomes(h, [h EXCEPT !.conn = TRUE, !.at = at])

\* send text and return; a failed Send panics
SendAndReturn(h, text) ==
    \E ok \in BOOLEAN :
        /\ Inject(ok)
        /\ IF ok THEN Returns(h, h, text) ELSE Panic(h, "send failed")

Starting(h, handler) == alive /\ h.at = "Start" /\ h.handler = handler

\* main: the update loop receives a message and starts its goroutine
Receive ==
    /\ alive
    /\ BagCardinality(msgs) < MaxMsgs
    /\ \E user \in Senders, message \in Inbox :
         msgs' = msgs (+) SetToBag({NewHandler(user, message[1], message[2], Now)})
    /\ UNCHANGED <<events, pool, alive, faults, chartVars, laneVars>>

\* variant: add has no early return for an empty name
Add_storesEmpty ==
    /\ \E h \in Handlers :
         /\ Starting(h, "add")
         /\ Get(h, "AddQuery") /\ UNCHANGED faults
    /\ UNCHANGED <<events, alive, chartVars, laneVars>>

\* add: the empty name, or a connection is taken
Add ==
    /\ \E h \in Handlers :
         /\ Starting(h, "add")
         /\ IF h.arg = ""
            THEN SendAndReturn(h, "Please provide a name: *name* or /add *name* if you'd like to be formal")
            ELSE Get(h, "AddQuery") /\ UNCHANGED faults
    /\ UNCHANGED <<events, alive, chartVars, laneVars>>

\* add: the response is built from the last event of the name and its
\* sending is started in a goroutine of its own
AddQuery ==
    /\ \E h \in Handlers, ok \in BOOLEAN :
         /\ alive
         /\ h.at = "AddQuery"
         /\ Inject(ok)
         /\ IF ok
            THEN LET since == buildSinceResponse(h.arg, h.date, h.user, events)
                     response == IF since = "" THEN firstTime(h.arg) ELSE since
                 IN  /\ Becomes(h, [h EXCEPT !.response = response, !.bg = "pending",
                                             !.at = "AddInsert"])
                     /\ pool' = pool
            ELSE Panic(h, "query failed")
    /\ UNCHANGED <<events, alive, chartVars, laneVars>>

\* add: the event is stored, add returns
AddInsert ==
    /\ \E h \in Handlers, ok \in BOOLEAN :
         /\ alive
         /\ h.at = "AddInsert"
         /\ Inject(ok)
         /\ IF ok
            THEN /\ events' = Append(events,
                                     [user |-> h.user, name |-> h.arg, date |-> h.date])
                 /\ Becomes(h, [h EXCEPT !.at = "Done", !.conn = FALSE])
                 /\ pool' = Put(pool, h.conn, FALSE)
            ELSE Panic(h, "insert failed") /\ events' = events
    /\ UNCHANGED <<alive, chartVars, laneVars>>

\* go c.sendText(response): no deferred function of this goroutine recovers,
\* a failed Send ends the process
SendInBackground ==
    /\ \E h \in Handlers, ok \in BOOLEAN :
         /\ alive
         /\ h.bg = "pending"
         /\ Inject(ok)
         /\ IF ok
            THEN /\ Becomes(h, [h EXCEPT !.bg = "sent", !.out = Append(@, h.response)])
                 /\ alive' = alive
            ELSE /\ Becomes(h, [h EXCEPT !.bg = "panicked"])
                 /\ alive' = FALSE
    /\ UNCHANGED <<events, pool, chartVars, laneVars>>

Since ==
    /\ \E h \in Handlers :
         /\ Starting(h, "since")
         /\ IF h.arg = ""
            THEN SendAndReturn(h, "Please provide a name: /since *name*")
            ELSE Get(h, "SinceQuery") /\ UNCHANGED faults
    /\ UNCHANGED <<events, alive, chartVars, laneVars>>

SinceQuery ==
    /\ \E h \in Handlers, outcome \in {"ok", "query failed", "send failed"} :
         /\ alive
         /\ h.at = "SinceQuery"
         /\ Inject(outcome = "ok")
         /\ IF outcome = "ok"
            THEN LET since == buildSinceResponse(h.arg, h.date, h.user, events)
                     response == IF since = ""
                                 THEN "You don't have any events named '" \o h.arg \o "'"
                                 ELSE since
                 IN  Returns(h, [h EXCEPT !.response = response], response)
            ELSE Panic(h, outcome)
    /\ UNCHANGED <<events, alive, chartVars, laneVars>>

Chart ==
    /\ \E h \in Handlers :
         /\ Starting(h, "chart")
         /\ IF h.arg = ""
            THEN SendAndReturn(h, "Please provide a name: /chart *name*")
            ELSE Get(h, "ChartQuery") /\ UNCHANGED faults
    /\ UNCHANGED <<events, alive, chartVars, laneVars>>

\* chart: the scan of the events of the name; nothing to draw when no day
\* of the last 30 has an event
ChartQuery ==
    /\ \E h \in Handlers, outcome \in {"ok", "query failed", "send failed"} :
         /\ alive
         /\ h.at = "ChartQuery"
         /\ LET scan == chartDays(h.arg, h.date, h.user, events)
                h1 == [h EXCEPT !.days = scan.days, !.seen = Len(events)]
            IN  IF outcome = "query failed"
                THEN Inject(FALSE) /\ Panic(h, outcome)
                ELSE IF scan.fault
                THEN /\ outcome = "ok"
                     /\ Inject(TRUE)
                     /\ Panic(h, "index out of range")
                ELSE IF findMax(scan.days, 1, -1) <= 0
                THEN /\ Inject(outcome = "ok")
                     /\ IF outcome = "ok"
                        THEN Returns(h, h1,
                                 "No events named '" \o h.arg \o "' have been logged in the last "
                                     \o IntStr(defaultChartDays) \o " days")
                        ELSE Panic(h, outcome)
                ELSE /\ outcome = "ok"
                     /\ Inject(TRUE)
                     /\ Becomes(h, [h1 EXCEPT !.at = "SendChart"])
                     /\ pool' = pool
    /\ UNCHANGED <<events, alive, chartVars, laneVars>>

\* sendChart: the bar chart is rendered and sent as chart.png
SendChart ==
    /\ \E h \in Handlers, outcome \in {"ok", "render failed", "send failed"} :
         /\ alive
         /\ h.at = "SendChart"
         /\ Inject(outcome = "ok")
         /\ IF outcome = "ok"
            THEN Returns(h, h, "chart.png")
            ELSE Panic(h, outcome)
    /\ UNCHANGED <<events, alive, chartVars, laneVars>>

Export ==
    /\ \E h \in Handlers :
         /\ Starting(h, "export")
         /\ Get(h, "ExportQuery")
    /\ UNCHANGED <<events, alive, faults, chartVars, laneVars>>

\* export: the user's events are written to data.csv and sent
ExportQuery ==
    /\ \E h \in Handlers, outcome \in {"ok", "query failed", "send failed"} :
         /\ alive
         /\ h.at = "ExportQuery"
         /\ Inject(outcome = "ok")
         /\ IF outcome = "ok"
            THEN Returns(h, [h EXCEPT !.seen = Len(events)], "data.csv")
            ELSE Panic(h, outcome)
    /\ UNCHANGED <<events, alive, chartVars, laneVars>>

Help ==
    /\ \E h \in Handlers :
         /\ Starting(h, "help")
         /\ SendAndReturn(h, "Simply send an event name to log a new event.")
    /\ UNCHANGED <<events, alive, chartVars, laneVars>>

Test ==
    /\ \E h \in Handlers :
         /\ Starting(h, "test")
         /\ SendAndReturn(h, "It works")
    /\ UNCHANGED <<events, alive, chartVars, laneVars>>

Unknown ==
    /\ \E h \in Handlers :
         /\ Starting(h, "unknown")
         /\ SendAndReturn(h, "Eh? /" \o h.arg \o "?")
    /\ UNCHANGED <<events, alive, chartVars, laneVars>>

\* top, topChart: getTopEvents takes a connection
Top ==
    /\ \E h \in Handlers :
         /\ alive
         /\ h.at = "Start"
         /\ h.handler \in {"top", "topChart"}
         /\ Get(h, "TopQuery")
    /\ UNCHANGED <<events, alive, faults, chartVars, laneVars>>

\* getTopEvents: the query, and the return with the connection put back
TopQuery ==
    /\ \E h \in Handlers, ok \in BOOLEAN :
         /\ alive
         /\ h.at = "TopQuery"
         /\ Inject(ok)
         /\ IF ok
            THEN /\ \E list \in getTopEvents(parseTopArgs(h.arg), h.user, events) :
                      Becomes(h, [h EXCEPT !.top = list, !.conn = FALSE, !.at = "TopSend"])
                 /\ pool' = Put(pool, h.conn, FALSE)
            ELSE Panic(h, "query failed")
    /\ UNCHANGED <<events, alive, chartVars, laneVars>>

\* top sends the list; topChart reads values[0] and sends the bar chart
TopSend ==
    /\ \E h \in Handlers, outcome \in {"ok", "render failed", "send failed"} :
         /\ alive
         /\ h.at = "TopSend"
         /\ IF h.handler = "top"
            THEN /\ outcome # "render failed"
                 /\ Inject(outcome = "ok")
                 /\ IF outcome = "ok"
                    THEN Returns(h, h, topResponse(parseTopArgs(h.arg), h.top))
                    ELSE Panic(h, outcome)
            ELSE IF h.top = << >>
            THEN /\ outcome = "ok"
                 /\ Inject(TRUE)
                 /\ Panic(h, "index out of range")
            ELSE /\ Inject(outcome = "ok")
                 /\ IF outcome = "ok"
                    THEN Returns(h, h, "chart.png")
                    ELSE Panic(h, outcome)
    /\ UNCHANGED <<events, alive, chartVars, laneVars>>

\* reply's deferred function: recover, and the panic sent to the chat; a
\* failed Send panics again, in the deferred function: the process ends
Recover ==
    /\ \E h \in Handlers, ok \in BOOLEAN :
         /\ alive
         /\ h.at = "Recover"
         /\ Inject(ok)
         /\ IF ok
            THEN /\ Becomes(h, [h EXCEPT !.at = "Done",
                                         !.out = Append(@, internalError(h.panic))])
                 /\ alive' = alive
            ELSE /\ Becomes(h, [h EXCEPT !.at = "Crashed"])
                 /\ alive' = FALSE
    /\ UNCHANGED <<events, pool, chartVars, laneVars>>

NextBot ==
    \/ Receive
    \/ Add
    \/ AddQuery
    \/ AddInsert
    \/ SendInBackground
    \/ Since
    \/ SinceQuery
    \/ Chart
    \/ ChartQuery
    \/ SendChart
    \/ Export
    \/ ExportQuery
    \/ Help
    \/ Test
    \/ Unknown
    \/ Top
    \/ TopQuery
    \/ TopSend
    \/ Recover

SpecBot == InitBot /\ [][NextBot]_vars

(***************************************************************************)
(* Vocabulary of the bot properties.                                       *)
(***************************************************************************)
\* the number of goroutines among those of the set S
RECURSIVE Copies(_)
Copies(S) ==
    IF S = {} THEN 0
    ELSE LET h == CHOOSE h \in S : TRUE
         IN  CopiesIn(h, msgs) + Copies(S \ {h})

Sent(h, text) == \E k \in 1..Len(h.out) : h.out[k] = text

AllHandled == \A h \in Handlers : h.at = "Done"

\* the reply(s) "First time for ..." that adds of the name have sent
FirstTimeReplies(user, name) ==
    Copies({h \in Handlers : /\ h.handler = "add"
                             /\ h.user = user
                             /\ h.arg = name
                             /\ Sent(h, firstTime(name))})

(***************************************************************************)
(* C26 (as claimed): when a user sends the same not yet logged name in     *)
(* several messages handled concurrently, at most one of the replies is    *)
(* "First time for ...".                                                   *)
(***************************************************************************)
Cex_C26_OneFirstTime ==
    \A user \in Senders : FirstTimeReplies(user, "run") <= 1

(***************************************************************************)
(* C27 (as claimed): a panic raised while a message is handled never ends  *)
(* the process: it is recovered in reply and reported to the chat as an    *)
(* "Internal error" message.                                               *)
(***************************************************************************)
Cex_C27_PanicNeverKills ==
    /\ alive
    /\ \A h \in Handlers :
          (h.at = "Done" /\ h.panic # "") => Sent(h, internalError(h.panic))

(***************************************************************************)
(* C28: in /chart, for k in 0..29, days[k] is the number of the user's     *)
(* events of the name, among those stored when the scan ran, whose age     *)
(* floor((now - date)/86400), taken as 0 for a date in the future, is k:   *)
(* the early stop of the date-descending scan loses no event younger than  *)
(* 30 days, and no index of days is out of range.                          *)
(***************************************************************************)
Age(now, date) ==
    LET days == (now - date) \div secondsPerDay
    IN  IF days < 0 THEN 0 ELSE days

Scanned(h) == h.handler = "chart" /\ h.days # << >>

Thm_C28_ChartDays ==
    \A h \in Handlers :
        /\ h.handler = "chart" => h.panic # "index out of range"
        /\ Scanned(h) =>
              /\ Len(h.days) = defaultChartDays
              /\ \A k \in 0..(defaultChartDays - 1) :
                    h.days[k + 1] =
                        Cardinality({j \in 1..h.seen : /\ events[j].user = h.user
                                                       /\ events[j].name = h.arg
                                                       /\ Age(h.date, events[j].date) = k})

Wit_C28_ChartDays ==
    \E h \in Handlers :
        /\ Scanned(h)
        /\ h.at = "Done"
        /\ Sent(h, "chart.png")
        /\ h.seen = Len(Preloaded) + 1
        /\ h.days[1] = 5
        /\ h.days[2] = 1
        /\ h.days[defaultChartDays] = 1

(***************************************************************************)
(* C29: only add changes the events table: every change of the table is    *)
(* one row (user, name, message date) appended by an add with a name that  *)
(* is not empty; the rows of this run are as many as the adds with a name  *)
(* that returned normally (an add with the empty text, and since, chart,   *)
(* top, topchart, export, help, test and unknown commands, insert none).   *)
(***************************************************************************)
RowOfAdd(h) == [user |-> h.user, name |-> h.arg, date |-> h.date]

\* the rows stored in this run (no earlier row has the date of its messages)
RowsOfRun == SelectSeq(events, LAMBDA r : r.date = Now)

StoredAdds ==
    {h \in Handlers : h.handler = "add" /\ h.arg # "" /\ h.at = "Done" /\ h.panic = ""}

Thm_C29_OnlyAddStores ==
    /\ [][events' # events =>
             \E h \in Handlers : /\ h.handler = "add"
                                 /\ h.arg # ""
                                 /\ h.at = "AddInsert"
                                 /\ events' = Append(events, RowOfAdd(h))]_vars
    /\ [](Len(RowsOfRun) = Copies(StoredAdds))

Wit_C29_OnlyAddStores ==
    /\ AllHandled
    /\ Len(events) = Len(Preloaded) + 1
    /\ events[Len(events)] = [user |-> 7, name |-> "run", date |-> Now]
    /\ \E h \in Handlers : h.handler = "add" /\ h.arg = "run" /\ h.panic = ""
    /\ \E h \in Handlers : h.handler = "since" /\ h.arg = "run" /\ h.panic = ""

(***************************************************************************)
(* C30: every handler that takes a connection from the pool puts it back   *)
(* on every way out (return, early return, panic): the connections taken   *)
(* are those of the handlers between their Get and their return, never     *)
(* more than the messages being handled, and none once every message is    *)
(* handled.                                                                *)
(***************************************************************************)
CheckedOut == poolSize - pool

HoldingStages ==
    {"AddQuery", "AddInsert", "SinceQuery", "ChartQuery", "SendChart", "ExportQuery",
     "TopQuery"}

Thm_C30_ConnectionsReturned ==
    /\ pool \in 0..poolSize
    /\ CheckedOut = Copies({h \in Handlers : h.conn})
    /\ \A h \in Handlers : h.conn <=> h.at \in HoldingStages
    /\ CheckedOut <= Copies({h \in Handlers : h.at # "Done"})
    /\ AllHandled => CheckedOut = 0

Wit_C30_ConnectionsReturned ==
    /\ AllHandled
    /\ CheckedOut = 0
    /\ \E h \in Handlers : h.handler = "chart" /\ h.panic = "send failed" /\ Scanned(h)
    /\ \E h \in Handlers : h.handler = "add" /\ h.arg = "run" /\ h.panic = ""

====
